---- MODULE Spec2Model ----
(***************************************************************************)
(* Model of aqts-capture-cloudwatch-dashboard: the lambda and state        *)
(* machine listers, the IOW tag filters, title/etl-branch resolution and   *)
(* the widget builders of cloudwatch_monitoring/lambdas.py and             *)
(* cloudwatch_monitoring/state_machine.py.                                 *)
(*                                                                         *)
(* Python strings that the code searches, splits, upper-cases or sorts are *)
(* sequences of one-character strings; strings that are only copied into   *)
(* the output are TLA+ strings.                                            *)
(***************************************************************************)
EXTENDS Integers, Sequences, FiniteSets, Bags, TLC

VARIABLES entry, pc, deploy_stage, api_pages, list_calls, response, marker,
          function, function_metadata, is_iow_lambda, widget_properties,
          idx, iow_functions, positioning, lambda_widgets,
          memory_usage_widgets, state_machine_widgets,
          exception, failed_call, builder_calls, arg_db, db_status_widget,
          arg_metric_name, lookup_list, metrics_list

vars == <<entry, pc, deploy_stage, api_pages, list_calls, response, marker,
          function, function_metadata, is_iow_lambda, widget_properties,
          idx, iow_functions, positioning, lambda_widgets,
          memory_usage_widgets, state_machine_widgets,
          exception, failed_call, builder_calls, arg_db, db_status_widget,
          arg_metric_name, lookup_list, metrics_list>>

----------------------------------------------------------------------------
(* Bounds of the model.                                                    *)

MaxRecords == 2
MaxPages == 2
MaxFunctions == 3

----------------------------------------------------------------------------
(* Python str operations.                                                  *)

\* The characters that occur in resource names, in code-point order.
CodePoints == <<"-", "0", "1", "2", ":", "A", "B", "C", "D", "E", "F", "G", "H",
                "I", "J", "K", "L", "M", "N", "O", "P", "Q", "R", "S", "T", "U",
                "V", "W", "X", "Y", "Z", "a", "b", "c", "d", "e", "f", "g", "h",
                "i", "j", "k", "l", "m", "n", "o", "p", "q", "r", "s", "t", "u",
                "v", "w", "x", "y", "z">>

ord(c) == CHOOSE i \in 1..Len(CodePoints) : CodePoints[i] = c

LowerCase == <<"a", "b", "c", "d", "e", "f", "g", "h", "i", "j", "k", "l", "m",
               "n", "o", "p", "q", "r", "s", "t", "u", "v", "w", "x", "y", "z">>

UpperCase == <<"A", "B", "C", "D", "E", "F", "G", "H", "I", "J", "K", "L", "M",
               "N", "O", "P", "Q", "R", "S", "T", "U", "V", "W", "X", "Y", "Z">>

\* str.upper(): lower-case letters are mapped, every other character is kept.
upper(s) ==
    [i \in 1..Len(s) |->
        IF \E k \in 1..Len(LowerCase) : LowerCase[k] = s[i]
        THEN UpperCase[CHOOSE k \in 1..Len(LowerCase) : LowerCase[k] = s[i]]
        ELSE s[i]]

\* sub occurs in s at position i.
OccursAt(sub, s, i) ==
    /\ i >= 1
    /\ i + Len(sub) - 1 <= Len(s)
    /\ \A k \in 1..Len(sub) : s[i + k - 1] = sub[k]

\* The Python operator "sub in s" on strings.
Contains(sub, s) == \E i \in 1..(Len(s) + 1) : OccursAt(sub, s, i)

\* str.replace(old, new): every non-overlapping occurrence, left to right.
RECURSIVE replace(_, _, _)
replace(s, old, new) ==
    IF Len(old) = 0 \/ ~Contains(old, s) THEN s
    ELSE LET i == CHOOSE j \in 1..Len(s) :
                      OccursAt(old, s, j) /\ \A k \in 1..(j - 1) : ~OccursAt(old, s, k)
         IN SubSeq(s, 1, i - 1) \o new
              \o replace(SubSeq(s, i + Len(old), Len(s)), old, new)

\* str.split(sep) for a one-character separator.
RECURSIVE split(_, _)
split(s, sep) ==
    IF \A i \in 1..Len(s) : s[i] # sep THEN <<s>>
    ELSE LET i == CHOOSE j \in 1..Len(s) :
                      s[j] = sep /\ \A k \in 1..(j - 1) : s[k] # sep
         IN <<SubSeq(s, 1, i - 1)>> \o split(SubSeq(s, i + 1, Len(s)), sep)

\* sep.join(parts)
RECURSIVE join(_, _)
join(sep, parts) ==
    IF Len(parts) = 0 THEN <<>>
    ELSE IF Len(parts) = 1 THEN parts[1]
    ELSE parts[1] \o sep \o join(sep, Tail(parts))

\* a < b for Python strings: lexicographic on code points.
RECURSIVE StrLess(_, _)
StrLess(a, b) ==
    IF Len(b) = 0 THEN FALSE
    ELSE IF Len(a) = 0 THEN TRUE
    ELSE IF a[1] # b[1] THEN ord(a[1]) < ord(b[1])
    ELSE StrLess(Tail(a), Tail(b))

\* sorted(records, key=lambda i: i[key]): stable, ascending on the key.
RECURSIVE InsertSorted(_, _, _)
InsertSorted(r, recs, key) ==
    IF Len(recs) = 0 THEN <<r>>
    ELSE IF StrLess(r[key], recs[1][key]) THEN <<r>> \o recs
    ELSE <<recs[1]>> \o InsertSorted(r, Tail(recs), key)

\* sorted that leaves the list in the order it came in.
sorted_keeps_order(recs, key) == recs

RECURSIVE sorted(_, _)
sorted(recs, key) ==
    IF Len(recs) = 0 THEN <<>>
    ELSE InsertSorted(recs[Len(recs)], sorted(SubSeq(recs, 1, Len(recs) - 1), key), key)

----------------------------------------------------------------------------
(* lookups.py: the static tables.                                          *)

\* dashboard_lambdas, in the dict's insertion order; "key" is the dict key.
dashboard_lambdas == <<
    [key |-> "error_handler",
     repo_name |-> <<"a", "q", "t", "s", "-", "e", "r", "r", "o", "r", "-", "h", "a", "n", "d", "l", "e", "r">>,
     descriptor |-> <<"e", "r", "r", "o", "r", "H", "a", "n", "d", "l", "e", "r">>,
     label |-> <<"E", "r", "r", "o", "r", " ", "H", "a", "n", "d", "l", "e", "r">>,
     etl_branch |-> "error_handling"],
    [key |-> "capture_trigger",
     repo_name |-> <<"a", "q", "t", "s", "-", "c", "a", "p", "t", "u", "r", "e", "-", "t", "r", "i", "g", "g", "e", "r">>,
     descriptor |-> <<"t", "r", "i", "g", "g", "e", "r">>,
     label |-> <<"C", "a", "p", "t", "u", "r", "e", " ", "T", "r", "i", "g", "g", "e", "r">>,
     etl_branch |-> "data_ingest"],
    [key |-> "dvstat_transform",
     repo_name |-> <<"a", "q", "t", "s", "-", "d", "v", "s", "t", "a", "t">>,
     descriptor |-> <<"t", "r", "a", "n", "s", "f", "o", "r", "m">>,
     label |-> <<"D", "V", " ", "s", "t", "a", "t", " ", "t", "r", "a", "n", "s", "f", "o", "r", "m", "e", "r">>,
     etl_branch |-> "dv"],
    [key |-> "field_visit_transform",
     repo_name |-> <<"a", "q", "t", "s", "-", "f", "i", "e", "l", "d", "-", "v", "i", "s", "i", "t">>,
     descriptor |-> <<"t", "r", "a", "n", "s", "f", "o", "r", "m">>,
     label |-> <<"F", "i", "e", "l", "d", " ", "v", "i", "s", "i", "t", " ", "t", "r", "a", "n", "s", "f", "o", "r", "m", "e", "r">>,
     etl_branch |-> "sv"],
    [key |-> "nwis_web_loader",
     repo_name |-> <<"a", "q", "t", "s", "-", "n", "w", "i", "s", "-", "w", "e", "b">>,
     descriptor |-> <<"l", "o", "a", "d", "e", "r">>,
     label |-> <<"N", "W", "I", "S", " ", "w", "e", "b", " ", "l", "o", "a", "d", "e", "r">>,
     etl_branch |-> "nwis_web"],
    [key |-> "pruner",
     repo_name |-> <<"a", "q", "t", "s", "-", "p", "r", "u", "n", "e", "r">>,
     descriptor |-> <<"p", "r", "u", "n", "e">>,
     label |-> <<"P", "r", "u", "n", "e", "r">>,
     etl_branch |-> "data_purging"],
    [key |-> "start_db",
     repo_name |-> <<"a", "q", "t", "s", "-", "e", "c", "o", "s", "y", "s", "t", "e", "m", "-", "s", "w", "i", "t", "c", "h">>,
     descriptor |-> <<"s", "t", "a", "r", "t", "D", "b">>,
     label |-> <<"S", "t", "a", "r", "t", " ", "D", "B">>,
     etl_branch |-> "environment_management"],
    [key |-> "stop_db",
     repo_name |-> <<"a", "q", "t", "s", "-", "e", "c", "o", "s", "y", "s", "t", "e", "m", "-", "s", "w", "i", "t", "c", "h">>,
     descriptor |-> <<"s", "t", "o", "p", "D", "b">>,
     label |-> <<"S", "t", "o", "p", " ", "D", "B">>,
     etl_branch |-> "environment_management"] >>

\* dashboard_lambdas[lookup_name]
dashboard_lambdas_get(lookup_name) ==
    dashboard_lambdas[CHOOSE i \in 1..Len(dashboard_lambdas) :
                          dashboard_lambdas[i].key = lookup_name]

\* custom_lambda_widgets
custom_lambda_widgets ==
    [concurrent_lambdas |-> <<"capture_trigger", "dvstat_transform", "pruner">>,
     duration_of_transform_db_lambdas |-> <<"dvstat_transform", "field_visit_transform">>]

\* state_machines: tier-agnostic state machine name -> title
state_machines == <<
    [key |-> <<"a", "q", "t", "s", "-", "c", "a", "p", "t", "u", "r", "e", "-", "s", "t", "a", "t", "e", "-", "m", "a", "c", "h", "i", "n", "e">>,
     title |-> <<"C", "a", "p", "t", "u", "r", "e", " ", "S", "t", "a", "t", "e", " ", "M", "a", "c", "h", "i", "n", "e">>] >>

----------------------------------------------------------------------------
(* lambdas.py: title and etl-branch resolution.                            *)

es_logs_plugin == <<"e", "s", "-", "l", "o", "g", "s", "-", "p", "l", "u", "g", "i", "n">>

\* f"{repo_name}-{deploy_stage}-{descriptor}"
FunctionNameOf(repo_name, stage, descriptor) ==
    repo_name \o <<"-">> \o stage \o <<"-">> \o descriptor

lambda_properties(lookup_name, stage) ==
    LET properties == dashboard_lambdas_get(lookup_name)
    IN [name |-> FunctionNameOf(properties.repo_name, stage, properties.descriptor),
        label |-> properties.label]

\* name_parts without the special case of the ES logger names.
name_parts_always_split(function_name, stage) ==
    LET function_name_without_tier == replace(function_name, <<"-">> \o stage, <<>>)
        function_name_parts == split(function_name_without_tier, "-")
    IN [descriptor |-> function_name_parts[Len(function_name_parts)],
        repo_name |-> join(<<"-">>, SubSeq(function_name_parts, 1,
                                            Len(function_name_parts) - 1))]

\* The (repo_name, descriptor) pair get_widget_properties derives from a name.
name_parts(function_name, stage) ==
    IF Contains(es_logs_plugin, function_name)
    THEN [descriptor |-> es_logs_plugin,
          repo_name |-> replace(function_name,
                                <<"-">> \o stage \o <<"-">> \o es_logs_plugin, <<>>)]
    ELSE LET function_name_without_tier == replace(function_name, <<"-">> \o stage, <<>>)
             function_name_parts == split(function_name_without_tier, "-")
         IN [descriptor |-> function_name_parts[Len(function_name_parts)],
             repo_name |-> join(<<"-">>, SubSeq(function_name_parts, 1,
                                                 Len(function_name_parts) - 1))]

\* lookup_step matching an entry on the descriptor alone.
lookup_step_descriptor_only(acc, lookup, parts) ==
    LET first == IF parts.descriptor = lookup.descriptor
                 THEN [title |-> lookup.label, etl_branch |-> lookup.etl_branch]
                 ELSE acc
    IN IF parts.repo_name = lookup.repo_name /\ parts.descriptor = es_logs_plugin
       THEN [title |-> lookup.label \o <<" ", "E", "S", " ", "l", "o", "g", "g", "e", "r">>,
             etl_branch |-> lookup.etl_branch]
       ELSE first

\* One iteration of the loop over dashboard_lambdas: both ifs, in order.
lookup_step(acc, lookup, parts) ==
    LET first == IF parts.repo_name = lookup.repo_name
                    /\ parts.descriptor = lookup.descriptor
                 THEN [title |-> lookup.label, etl_branch |-> lookup.etl_branch]
                 ELSE acc
    IN IF parts.repo_name = lookup.repo_name /\ parts.descriptor = es_logs_plugin
       THEN [title |-> lookup.label \o <<" ", "E", "S", " ", "l", "o", "g", "g", "e", "r">>,
             etl_branch |-> lookup.etl_branch]
       ELSE first

RECURSIVE lookup_loop(_, _, _)
lookup_loop(acc, i, parts) ==
    IF i > Len(dashboard_lambdas) THEN acc
    ELSE lookup_loop(lookup_step(acc, dashboard_lambdas[i], parts), i + 1, parts)

\* get_widget_properties starting from the first table entry as its default.
get_widget_properties_no_default(function_name, stage) ==
    lookup_loop([title |-> dashboard_lambdas[1].label,
                 etl_branch |-> dashboard_lambdas[1].etl_branch], 1,
                name_parts(function_name, stage))

get_widget_properties(function_name, stage) ==
    lookup_loop([title |-> function_name, etl_branch |-> "not defined"], 1,
                name_parts(function_name, stage))

----------------------------------------------------------------------------
(* lambdas.py / state_machine.py: the IOW tag filters.                     *)

wma_organization == <<"w", "m", "a", ":", "o", "r", "g", "a", "n", "i", "z", "a", "t", "i", "o", "n">>
IOW == <<"I", "O", "W">>
CleanupFunction == <<"C", "l", "e", "a", "n", "u", "p", "F", "u", "n", "c", "t", "i", "o", "n">>

\* "filtering on deploy tier": self.deploy_stage.upper() in s
tier_matches(stage, s) == Contains(upper(stage), s)

\* is_iow_lambda_filter without the exclusion of the CleanupFunction lambdas.
is_iow_lambda_filter_keeps_cleanup(fn, metadata, stage) ==
    IF tier_matches(stage, fn.FunctionName)
    THEN /\ "Tags" \in DOMAIN metadata
         /\ wma_organization \in DOMAIN metadata.Tags
         /\ IOW = metadata.Tags[wma_organization]
    ELSE FALSE

\* LambdaAPICalls.is_iow_lambda_filter; metadata is what get_function answers
\* for the function's name (the call is made only when the tier test passes).
is_iow_lambda_filter(fn, metadata, stage) ==
    IF tier_matches(stage, fn.FunctionName)
    THEN /\ "Tags" \in DOMAIN metadata
         /\ wma_organization \in DOMAIN metadata.Tags
         /\ IOW = metadata.Tags[wma_organization]
         /\ ~Contains(CleanupFunction, fn.FunctionName)
    ELSE FALSE

\* The loop over state_machine_tags['tags'].
tags_loop(tags) ==
    \E i \in 1..Len(tags) :
        /\ "key" \in DOMAIN tags[i]
        /\ Contains(wma_organization, tags[i].key)
        /\ IOW = tags[i].value

\* is_iow_state_machine_filter without the deploy tier test.
is_iow_state_machine_filter_any_tier(state_machine_arn, tags_response, stage) ==
    /\ "tags" \in DOMAIN tags_response
    /\ tags_loop(tags_response.tags)

\* StepFunctionAPICalls.is_iow_state_machine_filter; tags_response is what
\* list_tags_for_resource answers for the arn (the call is made only when the
\* tier test passes).
is_iow_state_machine_filter(state_machine_arn, tags_response, stage) ==
    IF tier_matches(stage, state_machine_arn)
    THEN /\ "tags" \in DOMAIN tags_response
         /\ tags_loop(tags_response.tags)
    ELSE FALSE

----------------------------------------------------------------------------
(* lambdas.py / state_machine.py: the widget builders.  Every builder      *)
(* takes the shared 'positioning' dict as pos and returns the widgets      *)
(* together with the dict as it leaves it.                                 *)

region == "us-west-2"

\* The two writes left out: positioning stays as the caller found it.
set_dimensions_skipped(pos, w, h) == pos

\* positioning['width'] = w; positioning['height'] = h
set_dimensions(pos, w, h) == [pos EXCEPT !.width = w, !.height = h]

text_widget(pos, markdown) ==
    [type |-> "text", height |-> pos.height, width |-> pos.width,
     properties |-> [markdown |-> markdown]]

\* The loop of generate_custom_lambda_metrics with every metric in the form
\* of the first.
RECURSIVE custom_metrics_loop_always_full(_, _, _, _)
custom_metrics_loop_always_full(names, count, stage, metric_name) ==
    IF count >= Len(names) THEN <<>>
    ELSE LET lambda_attributes == lambda_properties(names[count + 1], stage)
         IN << <<"AWS/Lambda", metric_name, "FunctionName", lambda_attributes.name,
                 [label |-> lambda_attributes.label]>> >>
              \o custom_metrics_loop_always_full(names, count + 1, stage, metric_name)

\* The for loop of generate_custom_lambda_metrics over the names of a list,
\* count names already done.
RECURSIVE custom_metrics_loop(_, _, _, _)
custom_metrics_loop(names, count, stage, metric_name) ==
    IF count >= Len(names) THEN <<>>
    ELSE LET lambda_attributes == lambda_properties(names[count + 1], stage)
             metric == IF count < 1
                       THEN <<"AWS/Lambda", metric_name, "FunctionName",
                              lambda_attributes.name,
                              [label |-> lambda_attributes.label]>>
                       ELSE <<"...", lambda_attributes.name,
                              [label |-> lambda_attributes.label]>>
         IN <<metric>> \o custom_metrics_loop(names, count + 1, stage, metric_name)

generate_custom_lambda_metrics(stage, metric_name, lookup_list_name) ==
    custom_metrics_loop(custom_lambda_widgets[lookup_list_name], 0, stage, metric_name)

custom_widget(pos, metrics, stacked, period, stat, title) ==
    [type |-> "metric", height |-> pos.height, width |-> pos.width,
     properties |-> [metrics |-> metrics, view |-> "timeSeries", stacked |-> stacked,
                     region |-> region, title |-> title, period |-> period,
                     stat |-> stat]]

\* The fixed head of the list: section title, four custom widgets, and the
\* title of the autogenerated section.
custom_lambda_section(pos, stage) ==
    LET p1 == set_dimensions(pos, 24, 1)
        p2 == set_dimensions(p1, 12, 6)
        p3 == set_dimensions(p2, 24, 1)
        error_handler_name == lambda_properties("error_handler", stage).name
    IN [widgets |-> <<
            text_widget(p1, "# Lambda Status"),
            custom_widget(p2,
                <<    <<"AWS/Lambda", "ConcurrentExecutions", "FunctionName",
                        error_handler_name, "Resource", error_handler_name>>,
                      <<".", "Invocations", ".", ".", [stat |-> "Sum"]>>    >>,
                FALSE, 60, "Average", "Error Handler Activity"),
            custom_widget(p2,
                generate_custom_lambda_metrics(stage, "ConcurrentExecutions",
                                               "concurrent_lambdas"),
                TRUE, 60, "Average", "Concurrent Lambdas (Average per minute)"),
            custom_widget(p2,
                generate_custom_lambda_metrics(stage, "Duration",
                                               "duration_of_transform_db_lambdas"),
                FALSE, 300, "Average",
                "Duration of Transformation DB Lambdas (Average)"),
            custom_widget(p2,
                generate_custom_lambda_metrics(stage, "Duration",
                                               "duration_of_transform_db_lambdas"),
                FALSE, 300, "Maximum",
                "Duration of Transformation DB Lambdas (Maximum)"),
            text_widget(p3, "# Status of each 'IOW' tagged lambda in the account") >>,
        positioning |-> p3]

numeric_stats_widget(pos, fn) ==
    [type |-> "metric", height |-> pos.height, width |-> pos.width,
     properties |-> [
        metrics |-> << <<"AWS/Lambda", "Invocations", "FunctionName",
                         fn.function_name, [stat |-> "Sum"]>>,
                       <<".", "Errors", ".", ".", [stat |-> "Sum"]>>,
                       <<".", "Duration", ".", ".">>,
                       <<".", "ConcurrentExecutions", ".", ".">>,
                       <<".", "Throttles", ".", ".">> >>,
        view |-> "singleValue", region |-> region, title |-> fn.title,
        period |-> 300, stacked |-> FALSE, stat |-> "Average"]]

concurrent_executions_widget(pos, fn) ==
    [type |-> "metric", height |-> pos.height, width |-> pos.width,
     properties |-> [
        metrics |-> << <<"AWS/Lambda", "ConcurrentExecutions", "FunctionName",
                         fn.function_name,
                         [stat |-> "Maximum", label |-> "ConcurrentExecutions (max)"]>>,
                       <<".", "Invocations", ".", ".">>,
                       <<".", "Errors", ".", ".">>,
                       <<".", "Throttles", ".", ".", [stat |-> "Average"]>> >>,
        view |-> "timeSeries", region |-> region,
        title |-> fn.title \o <<" ", "C", "o", "n", "c", "u", "r", "r", "e", "n", "t", " ", "E", "x", "e", "c", "u", "t", "i", "o", "n", "s">>,
        period |-> 300, stat |-> "Sum", stacked |-> FALSE]]

duration_widget(pos, fn) ==
    [type |-> "metric", height |-> pos.height, width |-> pos.width,
     properties |-> [
        metrics |-> << <<"AWS/Lambda", "Duration", "FunctionName",
                         fn.function_name, [yAxis |-> "left"]>>,
                       <<"...", [yAxis |-> "right", stat |-> "Maximum"]>> >>,
        view |-> "timeSeries", region |-> region,
        title |-> fn.title \o <<" ", "D", "u", "r", "a", "t", "i", "o", "n">>,
        period |-> 300, stat |-> "Average", stacked |-> FALSE]]

\* The bucket sort_widgets_by_etl_branch appends to for a branch.
bucket_of(branch) ==
    IF "dv" = branch THEN "dv_widgets"
    ELSE IF "sv" = branch THEN "sv_widgets"
    ELSE IF "environment_management" = branch THEN "environment_management_widgets"
    ELSE IF "error_handling" = branch THEN "error_widgets"
    ELSE IF "data_ingest" = branch THEN "data_in_widgets"
    ELSE IF "data_purging" = branch THEN "data_purge_widgets"
    ELSE IF "nwis_web" = branch THEN "nwis_web_widgets"
    ELSE "misc_widgets"

\* sort_widgets_by_etl_branch putting each widget at the front of its bucket.
RECURSIVE sort_widgets_by_etl_branch_prepend(_, _, _)
sort_widgets_by_etl_branch_prepend(buckets, widget_list, branch) ==
    IF Len(widget_list) = 0 THEN buckets
    ELSE sort_widgets_by_etl_branch_prepend(
             [buckets EXCEPT ![bucket_of(branch)] = <<widget_list[1]>> \o @],
             Tail(widget_list), branch)

RECURSIVE sort_widgets_by_etl_branch(_, _, _)
sort_widgets_by_etl_branch(buckets, widget_list, branch) ==
    IF Len(widget_list) = 0 THEN buckets
    ELSE sort_widgets_by_etl_branch(
             [buckets EXCEPT ![bucket_of(branch)] = Append(@, widget_list[1])],
             Tail(widget_list), branch)

empty_buckets ==
    [dv_widgets |-> <<>>, sv_widgets |-> <<>>, data_in_widgets |-> <<>>,
     data_purge_widgets |-> <<>>, error_widgets |-> <<>>,
     environment_management_widgets |-> <<>>, nwis_web_widgets |-> <<>>,
     misc_widgets |-> <<>>]

\* The loop over iow_functions of create_lambda_widgets.
RECURSIVE lambda_widgets_loop(_, _, _)
lambda_widgets_loop(acc, functions, i) ==
    IF i > Len(functions) THEN acc
    ELSE LET pos == set_dimensions(acc.positioning, 8, 6)
             widgets == <<numeric_stats_widget(pos, functions[i]),
                          concurrent_executions_widget(pos, functions[i]),
                          duration_widget(pos, functions[i])>>
         IN lambda_widgets_loop(
                [buckets |-> sort_widgets_by_etl_branch(acc.buckets, widgets,
                                                        functions[i].etl_branch),
                 positioning |-> pos],
                functions, i + 1)

\* extend_buckets with the undefined-category bucket first.
extend_buckets_misc_first(b) ==
    b.misc_widgets \o b.error_widgets \o b.data_in_widgets \o b.dv_widgets
      \o b.sv_widgets \o b.nwis_web_widgets \o b.data_purge_widgets
      \o b.environment_management_widgets

\* The order in which create_lambda_widgets extends lambda_widgets.
extend_buckets(b) ==
    b.error_widgets \o b.data_in_widgets \o b.dv_widgets \o b.sv_widgets
      \o b.nwis_web_widgets \o b.data_purge_widgets
      \o b.environment_management_widgets \o b.misc_widgets

create_lambda_widgets(pos, stage, functions) ==
    LET head == custom_lambda_section(pos, stage)
        done == lambda_widgets_loop([buckets |-> empty_buckets,
                                     positioning |-> head.positioning],
                                    functions, 1)
    IN [widgets |-> head.widgets \o extend_buckets(done.buckets),
        positioning |-> done.positioning]

memory_usage_widget(pos, fn) ==
    [type |-> "log", height |-> pos.height, width |-> pos.width,
     properties |-> [
        query |-> <<"S", "O", "U", "R", "C", "E", " ", "'", "/", "a", "w", "s", "/", "l", "a", "m", "b", "d", "a", "/">>
                    \o fn.function_name
                    \o <<"'", " ", "|", " ", "f", "i", "l", "t", "e", "r", " ", "@", "t", "y", "p", "e", "=", "\"", "R", "E", "P", "O", "R", "T", "\"", " ", "|", " ", "m", "a", "x", "(", "@", "m", "e", "m", "o", "r", "y", "S", "i", "z", "e", ")", " ", "a", "s", " ", "a", "l", "l", "o", "c", "a", "t", "e", "d", "M", "e", "m", "o", "r", "y", ",", " ", "a", "v", "g", "(", "@", "m", "a", "x", "M", "e", "m", "o", "r", "y", "U", "s", "e", "d", ")", " ", "a", "s", " ", "m", "e", "a", "n", "_", "M", "e", "m", "o", "r", "y", "U", "s", "e", "d", ",", " ", "m", "a", "x", "(", "@", "m", "a", "x", "M", "e", "m", "o", "r", "y", "U", "s", "e", "d", ")", " ", "a", "s", " ", "m", "a", "x", "_", "M", "e", "m", "o", "r", "y", "U", "s", "e", "d", " ", "b", "y", " ", "b", "i", "n", "(", "5", "m", "i", "n", ")">>,
        region |-> region,
        title |-> fn.title \o <<" ", "M", "e", "m", "o", "r", "y", " ", "U", "s", "a", "g", "e">>,
        view |-> "timeSeries", stacked |-> FALSE]]

RECURSIVE memory_usage_loop(_, _, _)
memory_usage_loop(acc, functions, i) ==
    IF i > Len(functions) THEN acc
    ELSE LET pos == set_dimensions(acc.positioning, 24, 6)
         IN memory_usage_loop(
                [widgets |-> Append(acc.widgets, memory_usage_widget(pos, functions[i])),
                 positioning |-> pos],
                functions, i + 1)

\* As create_lambda_memory_usage_widgets, but the section title is built
\* before positioning is written.
create_lambda_memory_usage_widgets_stale_title(pos, functions) ==
    memory_usage_loop(
        [widgets |-> <<text_widget(pos,
             "# Memory usage of each 'IOW' tagged lambda in the account")>>,
         positioning |-> set_dimensions(pos, 24, 1)],
        functions, 1)

create_lambda_memory_usage_widgets(pos, functions) ==
    LET p1 == set_dimensions(pos, 24, 1)
    IN memory_usage_loop(
           [widgets |-> <<text_widget(p1,
                "# Memory usage of each 'IOW' tagged lambda in the account")>>,
            positioning |-> p1],
           functions, 1)

\* state_machines[tier_agnostic_state_machine_name]['title'], KeyError caught.
state_machine_title(state_machine_name, stage) ==
    LET tier_agnostic_state_machine_name ==
            replace(state_machine_name, <<"-">> \o stage, <<>>)
    IN IF \E i \in 1..Len(state_machines) :
              state_machines[i].key = tier_agnostic_state_machine_name
       THEN state_machines[CHOOSE i \in 1..Len(state_machines) :
                state_machines[i].key = tier_agnostic_state_machine_name].title
       ELSE state_machine_name

state_machine_widget(pos, state_machine, stage) ==
    [type |-> "metric", height |-> pos.height, width |-> pos.width,
     properties |-> [
        metrics |-> << <<"AWS/States", "ExecutionsStarted", "StateMachineArn",
                         state_machine.stateMachineArn>>,
                       <<".", "ExecutionsSucceeded", ".", ".">>,
                       <<".", "ExecutionsFailed", ".", ".">>,
                       <<".", "ExecutionsTimedOut", ".", ".">> >>,
        view |-> "timeSeries", stacked |-> FALSE, region |-> region,
        stat |-> "Sum", period |-> 60,
        title |-> state_machine_title(state_machine.name, stage)]]

----------------------------------------------------------------------------
(* The AWS account the run sees: what list_functions, get_function,        *)
(* list_state_machines and list_tags_for_resource answer.                  *)

DEV == <<"D", "E", "V">>
QA == <<"Q", "A">>

\* The deploy_stage values a run is started with.
Stages == {DEV, QA, <<"d", "e", "v">>}

iow_tags == (wma_organization :> IOW)

\* The lambda functions that may exist in the account, each with the
\* get_function response for it.
LambdaAccount == {
    [FunctionName |-> <<"a", "q", "t", "s", "-", "c", "a", "p", "t", "u", "r", "e", "-", "t", "r", "i", "g", "g", "e", "r", "-", "D", "E", "V", "-", "t", "r", "i", "g", "g", "e", "r">>,
     metadata |-> [Tags |-> iow_tags]],
    [FunctionName |-> <<"a", "q", "t", "s", "-", "c", "a", "p", "t", "u", "r", "e", "-", "t", "r", "i", "g", "g", "e", "r", "-", "D", "E", "V", "-", "e", "s", "-", "l", "o", "g", "s", "-", "p", "l", "u", "g", "i", "n">>,
     metadata |-> [Tags |-> iow_tags]],
    [FunctionName |-> <<"a", "q", "t", "s", "-", "d", "v", "s", "t", "a", "t", "-", "Q", "A", "-", "t", "r", "a", "n", "s", "f", "o", "r", "m">>,
     metadata |-> [Tags |-> iow_tags]],
    [FunctionName |-> <<"a", "q", "t", "s", "-", "d", "v", "s", "t", "a", "t", "-", "D", "E", "V", "-", "t", "r", "a", "n", "s", "f", "o", "r", "m">>,
     metadata |-> [Tags |-> (wma_organization :> <<"W", "M", "A">>)]],
    [FunctionName |-> <<"a", "q", "t", "s", "-", "p", "r", "u", "n", "e", "r", "-", "D", "E", "V", "-", "C", "l", "e", "a", "n", "u", "p", "F", "u", "n", "c", "t", "i", "o", "n">>,
     metadata |-> [Tags |-> iow_tags]],
    [FunctionName |-> <<"a", "q", "t", "s", "-", "e", "r", "r", "o", "r", "-", "h", "a", "n", "d", "l", "e", "r", "-", "D", "E", "V", "-", "e", "r", "r", "o", "r", "H", "a", "n", "d", "l", "e", "r">>,
     metadata |-> [Configuration |-> "present"]],
    [FunctionName |-> <<"a", "q", "t", "s", "-", "p", "r", "u", "n", "e", "r", "-", "d", "e", "v", "-", "p", "r", "u", "n", "e">>,
     metadata |-> [Tags |-> iow_tags]] }

\* lambda_client.get_function(FunctionName=function_name)
get_function(function_name) ==
    (CHOOSE f \in LambdaAccount : f.FunctionName = function_name).metadata

\* The get_function responses tried against every name.
MetadataSet ==
    {f.metadata : f \in LambdaAccount}
      \cup {[Tags |-> (<<"t", "e", "a", "m">> :> IOW)]}

\* The state machines that may exist in the account, each with the
\* list_tags_for_resource response for its arn.
StateMachineAccount == {
    [name |-> <<"a", "q", "t", "s", "-", "c", "a", "p", "t", "u", "r", "e", "-", "s", "t", "a", "t", "e", "-", "m", "a", "c", "h", "i", "n", "e", "-", "D", "E", "V">>,
     stateMachineArn |-> <<"a", "r", "n", ":", "a", "w", "s", ":", "s", "t", "a", "t", "e", "s", ":", "u", "s", "-", "w", "e", "s", "t", "-", "2", ":", "1", ":", "s", "t", "a", "t", "e", "M", "a", "c", "h", "i", "n", "e", ":", "a", "q", "t", "s", "-", "c", "a", "p", "t", "u", "r", "e", "-", "s", "t", "a", "t", "e", "-", "m", "a", "c", "h", "i", "n", "e", "-", "D", "E", "V">>,
     tags_response |-> [tags |-> <<[key |-> wma_organization, value |-> IOW]>>]],
    [name |-> <<"a", "q", "t", "s", "-", "c", "a", "p", "t", "u", "r", "e", "-", "s", "t", "a", "t", "e", "-", "m", "a", "c", "h", "i", "n", "e", "-", "Q", "A">>,
     stateMachineArn |-> <<"a", "r", "n", ":", "a", "w", "s", ":", "s", "t", "a", "t", "e", "s", ":", "u", "s", "-", "w", "e", "s", "t", "-", "2", ":", "1", ":", "s", "t", "a", "t", "e", "M", "a", "c", "h", "i", "n", "e", ":", "a", "q", "t", "s", "-", "c", "a", "p", "t", "u", "r", "e", "-", "s", "t", "a", "t", "e", "-", "m", "a", "c", "h", "i", "n", "e", "-", "Q", "A">>,
     tags_response |-> [tags |-> <<[key |-> <<"t", "e", "a", "m">>, value |-> <<"W", "M", "A">>],
                                   [key |-> wma_organization, value |-> IOW]>>]],
    [name |-> <<"a", "q", "t", "s", "-", "o", "t", "h", "e", "r", "-", "D", "E", "V">>,
     stateMachineArn |-> <<"a", "r", "n", ":", "a", "w", "s", ":", "s", "t", "a", "t", "e", "s", ":", "u", "s", "-", "w", "e", "s", "t", "-", "2", ":", "1", ":", "s", "t", "a", "t", "e", "M", "a", "c", "h", "i", "n", "e", ":", "a", "q", "t", "s", "-", "o", "t", "h", "e", "r", "-", "D", "E", "V">>,
     tags_response |-> [tags |-> <<[key |-> wma_organization, value |-> IOW]>>]],
    [name |-> <<"a", "q", "t", "s", "-", "u", "n", "t", "a", "g", "g", "e", "d", "-", "D", "E", "V">>,
     stateMachineArn |-> <<"a", "r", "n", ":", "a", "w", "s", ":", "s", "t", "a", "t", "e", "s", ":", "u", "s", "-", "w", "e", "s", "t", "-", "2", ":", "1", ":", "s", "t", "a", "t", "e", "M", "a", "c", "h", "i", "n", "e", ":", "a", "q", "t", "s", "-", "u", "n", "t", "a", "g", "g", "e", "d", "-", "D", "E", "V">>,
     tags_response |-> [tags |-> <<[value |-> IOW],
                                   [key |-> wma_organization, value |-> <<"W", "M", "A">>]>>]],
    [name |-> <<"a", "q", "t", "s", "-", "n", "o", "t", "a", "g", "s", "-", "D", "E", "V">>,
     stateMachineArn |-> <<"a", "r", "n", ":", "a", "w", "s", ":", "s", "t", "a", "t", "e", "s", ":", "u", "s", "-", "w", "e", "s", "t", "-", "2", ":", "1", ":", "s", "t", "a", "t", "e", "M", "a", "c", "h", "i", "n", "e", ":", "a", "q", "t", "s", "-", "n", "o", "t", "a", "g", "s", "-", "D", "E", "V">>,
     tags_response |-> [ResponseMetadata |-> "present"]],
    [name |-> <<"a", "q", "t", "s", "-", "l", "e", "g", "a", "c", "y">>,
     stateMachineArn |-> <<"a", "r", "n", ":", "a", "w", "s", ":", "s", "t", "a", "t", "e", "s", ":", "u", "s", "-", "w", "e", "s", "t", "-", "2", ":", "D", "E", "V", ":", "s", "t", "a", "t", "e", "M", "a", "c", "h", "i", "n", "e", ":", "a", "q", "t", "s", "-", "l", "e", "g", "a", "c", "y">>,
     tags_response |-> [tags |-> <<[key |-> wma_organization, value |-> IOW]>>]],
    [name |-> <<"a", "q", "t", "s", "-", "s", "u", "b", "k", "e", "y", "-", "D", "E", "V">>,
     stateMachineArn |-> <<"a", "r", "n", ":", "a", "w", "s", ":", "s", "t", "a", "t", "e", "s", ":", "u", "s", "-", "w", "e", "s", "t", "-", "2", ":", "1", ":", "s", "t", "a", "t", "e", "M", "a", "c", "h", "i", "n", "e", ":", "a", "q", "t", "s", "-", "s", "u", "b", "k", "e", "y", "-", "D", "E", "V">>,
     tags_response |-> [tags |-> <<[key |-> <<"x", "-", "w", "m", "a", ":", "o", "r", "g", "a", "n", "i", "z", "a", "t", "i", "o", "n">>, value |-> IOW]>>]] }

\* sfn_client.list_tags_for_resource(resourceArn=state_machine_arn)
list_tags_for_resource(state_machine_arn) ==
    (CHOOSE m \in StateMachineAccount :
         m.stateMachineArn = state_machine_arn).tags_response

\* Sequences of at most n distinct elements of S.
RECURSIVE DistinctSeqs(_, _)
DistinctSeqs(S, n) ==
    IF n = 0 THEN {<<>>}
    ELSE LET shorter == DistinctSeqs(S, n - 1)
         IN shorter \cup {Append(q, x) : q \in shorter, x \in S}

Distinct(q) == \A i, j \in 1..Len(q) : i # j => q[i] # q[j]

\* The ways the API may cut the records q into n pages (pages may be empty).
PagesOf(q, n) ==
    {[k \in 1..n |->
          SubSeq(q, (IF k = 1 THEN 0 ELSE cut[k - 1]) + 1,
                    IF k = n THEN Len(q) ELSE cut[k])] :
        cut \in {c \in [1..(n - 1) -> 0..Len(q)] :
                    \A k \in 1..(n - 2) : c[k] <= c[k + 1]}}

\* Every chain of 1..MaxPages pages over at most MaxRecords distinct records.
PageChains(records) ==
    UNION {PagesOf(q, n) : q \in {d \in DistinctSeqs(records, MaxRecords) : Distinct(d)},
                            n \in 1..MaxPages}

LambdaPageChains == PageChains({[FunctionName |-> f.FunctionName] : f \in LambdaAccount})

StateMachinePageChains ==
    PageChains({[name |-> m.name, stateMachineArn |-> m.stateMachineArn] :
                    m \in StateMachineAccount})

\* Python None, the initial marker / next_token.
None == 0

\* One call of a list API: the page the token names, with the token of the
\* page after it unless it is the last page.  Tokens are page numbers >= 2.
list_page(pages, token, records_key, token_key) ==
    LET k == IF token = None THEN 1 ELSE token
    IN IF k < Len(pages)
       THEN (records_key :> pages[k]) @@ (token_key :> (k + 1))
       ELSE (records_key :> pages[k])

\* merge_page where a later page replaces the record list.
merge_page_overwrite(resp, token, response_iterator, records_key) ==
    IF token # None
    THEN [resp EXCEPT ![records_key] = response_iterator[records_key]]
    ELSE response_iterator @@ resp

\* The if/else of the pagination loops: a call with a token extends the
\* record list, the first call updates the (empty) response dict.
merge_page(resp, token, response_iterator, records_key) ==
    IF token # None
    THEN [resp EXCEPT ![records_key] = @ \o response_iterator[records_key]]
    ELSE response_iterator @@ resp

\* has_more that breaks out of the loop after the first page.
has_more_never(response_iterator, token_key) == FALSE

\* The try/except KeyError of the pagination loops: TRUE when the page carries
\* a continuation token, FALSE when the loop breaks.
has_more(response_iterator, token_key) == token_key \in DOMAIN response_iterator

\* lambda_client.list_functions(MaxItems=10[, Marker=marker])
list_functions(pages, token) == list_page(pages, token, "Functions", "NextMarker")

\* sfn_client.list_state_machines(maxResults=10[, nextToken=next_token])
list_state_machines(pages, token) ==
    list_page(pages, token, "stateMachines", "nextToken")

----------------------------------------------------------------------------
(* The entry points.  A behaviour exercises one of them:                   *)
(*   "lambda"   get_iow_functions, then the two lambda widget builders;    *)
(*   "sfn"      create_state_machine_widgets;                              *)
(*   "widgets"  the lambda widget builders on any iow_functions list;      *)
(*   "filter"   is_iow_lambda_filter on any name and get_function answer;  *)
(*   "props"    get_widget_properties on any name.                         *)

NotCalled == [NotCalled |-> TRUE]

InitialPositioning == [x |-> 0, y |-> 0, width |-> 3, height |-> 3]

\* The contents 'positioning' may have when a builder is called: as
\* constants.py sets it, or as an earlier widget construction left it.
Positionings ==
    {InitialPositioning,
     [x |-> 0, y |-> 0, width |-> 8, height |-> 6],
     [x |-> 0, y |-> 0, width |-> 24, height |-> 6]}

\* How many builder calls one run makes.
MaxCalls == 3

\* No exception is in flight.
NoException == "none"

\* No API call has raised.
NoCall == "none"

\* The exception a failing boto3 client call raises.
ClientError == "ClientError"

\* An exception raised inside get_iow_functions or create_state_machine_widgets
\* leaves the function unless a handler on the way catches it.  No API error
\* is ever caught in place of propagating.
propagates_never(exception_class) == FALSE

\* The only handlers are 'except KeyError' (around response_iterator['NextMarker'],
\* response_iterator['nextToken'] and the state_machines lookup).
propagates(exception_class) == exception_class # "KeyError"

\* What is in flight after an API call has raised.
raise(exception_class) ==
    IF propagates(exception_class) THEN exception_class ELSE NoException

\* The function names the filter and get_widget_properties are called on
\* when they are called on their own: every '<repo_name>-<S>-<descriptor>'
\* of the table, its ES logger companion, and the names in the account.
FunctionNames ==
    {FunctionNameOf(dashboard_lambdas[i].repo_name, S, dashboard_lambdas[i].descriptor) :
         i \in 1..Len(dashboard_lambdas), S \in Stages}
      \cup {FunctionNameOf(dashboard_lambdas[i].repo_name, S, es_logs_plugin) :
         i \in 1..Len(dashboard_lambdas), S \in Stages}
      \cup {f.FunctionName : f \in LambdaAccount}

\* The etl_branch of each iow_functions entry the widget builders are tried
\* on: one function per label, and a second data_ingest function.
PoolBranches == <<"error_handling", "data_ingest", "dv", "sv", "nwis_web",
                  "data_purging", "environment_management", "not defined",
                  "other", "data_ingest">>

IowFunctionPool ==
    {[function_name |-> <<"f", "n", "-", CodePoints[5 + i]>>,
      title |-> <<"T", "-", CodePoints[5 + i]>>,
      etl_branch |-> PoolBranches[i]] : i \in 1..Len(PoolBranches)}

\* str.lower(): upper-case letters are mapped, every other character is kept.
lower(s) ==
    [i \in 1..Len(s) |->
        IF \E k \in 1..Len(UpperCase) : UpperCase[k] = s[i]
        THEN LowerCase[CHOOSE k \in 1..Len(UpperCase) : UpperCase[k] = s[i]]
        ELSE s[i]]

\* str.capitalize(): the first character upper-cased, the rest lower-cased.
capitalize(s) ==
    IF Len(s) = 0 THEN s
    ELSE upper(SubSeq(s, 1, 1)) \o lower(SubSeq(s, 2, Len(s)))

nwcapture == <<"n", "w", "c", "a", "p", "t", "u", "r", "e">>
observations == <<"o", "b", "s", "e", "r", "v", "a", "t", "i", "o", "n", "s">>

\* The databases that get a status widget.
Databases == {nwcapture, observations}

\* The regions generate_db_status_widget is called with.
Regions == {region, "us-south-10"}

\* Every database is taken for a cluster.
db_identifier_dimension_cluster_only(db) == "DBClusterIdentifier"

\* nwcapture is an Aurora cluster, observations a single instance.
db_identifier_dimension(db) ==
    IF db = nwcapture THEN "DBClusterIdentifier" ELSE "DBInstanceIdentifier"

\* rds.generate_db_status_widget(region, deploy_stage, db)
generate_db_status_widget(region_name, stage, db) ==
    [type |-> "metric", height |-> 6, width |-> 12,
     properties |-> [
        metrics |-> << <<"AWS/RDS", "CPUUtilization", db_identifier_dimension(db),
                         db \o <<"-">> \o lower(stage)>>,
                       <<".", "DatabaseConnections", ".", ".", [yAxis |-> "right"]>> >>,
        view |-> "timeSeries", stacked |-> FALSE, region |-> region_name,
        title |-> capitalize(db) \o <<" ", "D", "B", " ", "S", "t", "a", "t", "u", "s">>,
        period |-> 300, stat |-> "Average"]]

\* The lookup names that occur in the lists of custom_lambda_widgets.
CustomLambdaNames ==
    UNION {{custom_lambda_widgets[l][k] : k \in 1..Len(custom_lambda_widgets[l])} :
               l \in DOMAIN custom_lambda_widgets}

\* The contents custom_lambda_widgets[lookup_list_name] may have: the lists
\* of the table, and every other list of those names, the empty one included.
LookupLists ==
    {q \in DistinctSeqs(CustomLambdaNames, MaxFunctions) : Distinct(q)}

\* The iow_functions lists the builders are called on more than once.
RebuildPool == {f \in IowFunctionPool : f.etl_branch \in {"dv", "sv", "not defined"}}

Init ==
    /\ deploy_stage \in Stages
    /\ entry \in {"lambda", "sfn", "widgets", "filter", "props", "rebuild", "rds",
                 "metrics"}
    /\ pc = "start"
    /\ api_pages \in (IF entry = "lambda" THEN LambdaPageChains
                      ELSE IF entry = "sfn" THEN StateMachinePageChains
                      ELSE {<<>>})
    /\ function \in (IF entry \in {"filter", "props"}
                     THEN {[FunctionName |-> n] : n \in FunctionNames}
                     ELSE {<<>>})
    /\ function_metadata \in (IF entry = "filter" THEN MetadataSet ELSE {NotCalled})
    /\ iow_functions \in (IF entry = "widgets"
                          THEN {q \in DistinctSeqs(IowFunctionPool, MaxFunctions) :
                                    Distinct(q)}
                          ELSE IF entry = "rebuild"
                          THEN {q \in DistinctSeqs(RebuildPool, MaxFunctions) :
                                    Distinct(q)}
                          ELSE {<<>>})
    /\ list_calls = 0
    /\ response = <<>>
    /\ marker = None
    /\ is_iow_lambda = FALSE
    /\ widget_properties = <<>>
    /\ idx = 1
    /\ positioning \in (IF entry \in {"rebuild", "sfn"} THEN Positionings
                        ELSE {InitialPositioning})
    /\ lambda_widgets = <<>>
    /\ memory_usage_widgets = <<>>
    /\ state_machine_widgets = <<>>
    /\ exception = NoException
    /\ failed_call = NoCall
    /\ builder_calls = 0
    /\ arg_db \in (IF entry = "rds" THEN Databases ELSE {<<>>})
    /\ db_status_widget = <<>>
    /\ arg_metric_name \in (IF entry = "metrics" THEN {"ConcurrentExecutions", "Duration"}
                        ELSE {""})
    /\ lookup_list \in (IF entry = "metrics" THEN LookupLists ELSE {<<>>})
    /\ metrics_list = <<>>

----------------------------------------------------------------------------
(* Actions.                                                                *)

\* get_iow_functions is entered: api_calls = LambdaAPICalls(region, deploy_stage)
GetIowFunctions ==
    /\ entry = "lambda" /\ pc = "start"
    /\ pc' = "list_functions"
    /\ exception = NoException
    /\ UNCHANGED <<exception, failed_call, arg_db, db_status_widget, arg_metric_name,
                   lookup_list, metrics_list, builder_calls,
                   entry, deploy_stage, api_pages, list_calls, response, marker,
                   function, function_metadata, is_iow_lambda, widget_properties,
                   idx, iow_functions, positioning, lambda_widgets,
                   memory_usage_widgets, state_machine_widgets>>

\* One iteration of the while loop of get_all_lambda_metadata; the iteration
\* that finds no NextMarker breaks, sorts response['Functions'] and returns.
ListFunctions ==
    /\ entry = "lambda" /\ pc = "list_functions"
    /\ LET response_iterator == list_functions(api_pages, marker)
           merged == merge_page(response, marker, response_iterator, "Functions")
           more == has_more(response_iterator, "NextMarker")
       IN /\ response' = IF more THEN merged
                         ELSE [merged EXCEPT !.Functions = sorted(@, "FunctionName")]
          /\ marker' = IF more THEN response_iterator.NextMarker ELSE marker
          /\ pc' = IF more THEN "list_functions" ELSE "filter"
    /\ list_calls' = list_calls + 1
    /\ idx' = 1
    /\ exception = NoException
    /\ UNCHANGED <<exception, failed_call, arg_db, db_status_widget, arg_metric_name,
                   lookup_list, metrics_list, builder_calls,
                   entry, deploy_stage, api_pages, function, function_metadata,
                   is_iow_lambda, widget_properties, iow_functions, positioning,
                   lambda_widgets, memory_usage_widgets, state_machine_widgets>>

\* One iteration of the loop of get_iow_functions over response['Functions'].
FilterFunction ==
    /\ entry = "lambda" /\ pc = "filter"
    /\ idx <= Len(response.Functions)
    /\ LET fn == response.Functions[idx]
           passes == is_iow_lambda_filter(fn, get_function(fn.FunctionName),
                                          deploy_stage)
           properties == get_widget_properties(fn.FunctionName, deploy_stage)
       IN /\ function' = fn
          /\ function_metadata' = IF tier_matches(deploy_stage, fn.FunctionName)
                                   THEN get_function(fn.FunctionName)
                                   ELSE NotCalled
          /\ is_iow_lambda' = passes
          /\ widget_properties' = IF passes THEN properties ELSE widget_properties
          /\ iow_functions' =
                IF passes
                THEN Append(iow_functions,
                            [function_name |-> fn.FunctionName,
                             title |-> properties.title,
                             etl_branch |-> properties.etl_branch])
                ELSE iow_functions
    /\ idx' = idx + 1
    /\ exception = NoException
    /\ UNCHANGED <<exception, failed_call, arg_db, db_status_widget, arg_metric_name,
                   lookup_list, metrics_list, builder_calls,
                   entry, pc, deploy_stage, api_pages, list_calls, response, marker,
                   positioning, lambda_widgets, memory_usage_widgets,
                   state_machine_widgets>>

\* get_iow_functions returns iow_functions.
ReturnIowFunctions ==
    /\ entry = "lambda" /\ pc = "filter"
    /\ idx > Len(response.Functions)
    /\ pc' = "create_lambda_widgets"
    /\ exception = NoException
    /\ UNCHANGED <<exception, failed_call, arg_db, db_status_widget, arg_metric_name,
                   lookup_list, metrics_list, builder_calls,
                   entry, deploy_stage, api_pages, list_calls, response, marker,
                   function, function_metadata, is_iow_lambda, widget_properties,
                   idx, iow_functions, positioning, lambda_widgets,
                   memory_usage_widgets, state_machine_widgets>>

\* self.lambda_client.list_functions(...) raises.
ListFunctionsRaises ==
    /\ entry = "lambda" /\ pc = "list_functions"
    /\ exception = NoException
    /\ failed_call' = "list_functions"
    /\ exception' = raise(ClientError)
    /\ UNCHANGED <<arg_db, db_status_widget, arg_metric_name,
                   lookup_list, metrics_list, builder_calls,
                   entry, pc, deploy_stage, api_pages, list_calls, response, marker,
                   function, function_metadata, is_iow_lambda, widget_properties,
                   idx, iow_functions, positioning, lambda_widgets,
                   memory_usage_widgets, state_machine_widgets>>

\* self.lambda_client.get_function(FunctionName=function_name) raises; it is
\* called only for a name that holds the tier.
GetFunctionRaises ==
    /\ entry = "lambda" /\ pc = "filter"
    /\ idx <= Len(response.Functions)
    /\ tier_matches(deploy_stage, response.Functions[idx].FunctionName)
    /\ exception = NoException
    /\ failed_call' = "get_function"
    /\ exception' = raise(ClientError)
    /\ UNCHANGED <<arg_db, db_status_widget, arg_metric_name,
                   lookup_list, metrics_list, builder_calls,
                   entry, pc, deploy_stage, api_pages, list_calls, response, marker,
                   function, function_metadata, is_iow_lambda, widget_properties,
                   idx, iow_functions, positioning, lambda_widgets,
                   memory_usage_widgets, state_machine_widgets>>

\* The builders are called on a list that did not come from get_iow_functions.
CallWithIowFunctions ==
    /\ entry \in {"widgets", "rebuild"} /\ pc = "start"
    /\ pc' = "create_lambda_widgets"
    /\ exception = NoException
    /\ UNCHANGED <<exception, failed_call, arg_db, db_status_widget, arg_metric_name,
                   lookup_list, metrics_list, builder_calls,
                   entry, deploy_stage, api_pages, list_calls, response, marker,
                   function, function_metadata, is_iow_lambda, widget_properties,
                   idx, iow_functions, positioning, lambda_widgets,
                   memory_usage_widgets, state_machine_widgets>>

\* create_lambda_widgets(region, deploy_stage, iow_functions)
CreateLambdaWidgets ==
    /\ pc = "create_lambda_widgets"
    /\ LET result == create_lambda_widgets(positioning, deploy_stage, iow_functions)
       IN /\ lambda_widgets' = result.widgets
          /\ positioning' = result.positioning
    /\ pc' = "create_lambda_memory_usage_widgets"
    /\ builder_calls' = builder_calls + 1
    /\ exception = NoException
    /\ UNCHANGED <<exception, failed_call, arg_db, db_status_widget, arg_metric_name,
                   lookup_list, metrics_list,
                   entry, deploy_stage, api_pages, list_calls, response, marker,
                   function, function_metadata, is_iow_lambda, widget_properties,
                   idx, iow_functions, memory_usage_widgets, state_machine_widgets>>

\* create_lambda_memory_usage_widgets(region, iow_functions)
CreateLambdaMemoryUsageWidgets ==
    /\ pc = "create_lambda_memory_usage_widgets"
    /\ LET result == create_lambda_memory_usage_widgets(positioning, iow_functions)
       IN /\ memory_usage_widgets' = result.widgets
          /\ positioning' = result.positioning
    /\ pc' = "done"
    /\ builder_calls' = builder_calls + 1
    /\ exception = NoException
    /\ UNCHANGED <<exception, failed_call, arg_db, db_status_widget, arg_metric_name,
                   lookup_list, metrics_list,
                   entry, deploy_stage, api_pages, list_calls, response, marker,
                   function, function_metadata, is_iow_lambda, widget_properties,
                   idx, iow_functions, lambda_widgets, state_machine_widgets>>

\* A caller that has its widget lists calls one of the lambda widget builders
\* again, with the same region, deploy_stage and iow_functions.
CallBuilderAgain ==
    /\ entry \in {"rebuild", "sfn"} /\ pc = "done"
    /\ builder_calls < MaxCalls
    /\ pc' \in {"create_lambda_widgets", "create_lambda_memory_usage_widgets"}
    /\ exception = NoException
    /\ UNCHANGED <<exception, failed_call, arg_db, db_status_widget, arg_metric_name,
                   lookup_list, metrics_list, builder_calls,
                   entry, deploy_stage, api_pages, list_calls, response, marker,
                   function, function_metadata, is_iow_lambda, widget_properties,
                   idx, iow_functions, positioning, lambda_widgets,
                   memory_usage_widgets, state_machine_widgets>>

\* api_calls.is_iow_lambda_filter(function) on its own.
CallIsIowLambdaFilter ==
    /\ entry = "filter" /\ pc = "start"
    /\ is_iow_lambda' = is_iow_lambda_filter(function, function_metadata, deploy_stage)
    /\ pc' = "done"
    /\ exception = NoException
    /\ UNCHANGED <<exception, failed_call, arg_db, db_status_widget, arg_metric_name,
                   lookup_list, metrics_list, builder_calls,
                   entry, deploy_stage, api_pages, list_calls, response, marker,
                   function, function_metadata, widget_properties, idx,
                   iow_functions, positioning, lambda_widgets,
                   memory_usage_widgets, state_machine_widgets>>

\* get_widget_properties(function_name, deploy_stage) on its own.
CallGetWidgetProperties ==
    /\ entry = "props" /\ pc = "start"
    /\ widget_properties' = get_widget_properties(function.FunctionName, deploy_stage)
    /\ pc' = "done"
    /\ exception = NoException
    /\ UNCHANGED <<exception, failed_call, arg_db, db_status_widget, arg_metric_name,
                   lookup_list, metrics_list, builder_calls,
                   entry, deploy_stage, api_pages, list_calls, response, marker,
                   function, function_metadata, is_iow_lambda, idx,
                   iow_functions, positioning, lambda_widgets,
                   memory_usage_widgets, state_machine_widgets>>

\* create_state_machine_widgets up to the call of get_all_state_machines:
\* the section title widget.
CreateStateMachineWidgets ==
    /\ entry = "sfn" /\ pc = "start"
    /\ LET pos == set_dimensions(positioning, 24, 1)
       IN /\ positioning' = pos
          /\ state_machine_widgets' = <<text_widget(pos, "# State Machine Status")>>
    /\ pc' = "list_state_machines"
    /\ builder_calls' = builder_calls + 1
    /\ exception = NoException
    /\ UNCHANGED <<exception, failed_call, arg_db, db_status_widget, arg_metric_name,
                   lookup_list, metrics_list,
                   entry, deploy_stage, api_pages, list_calls, response, marker,
                   function, function_metadata, is_iow_lambda, widget_properties,
                   idx, iow_functions, lambda_widgets, memory_usage_widgets>>

\* One iteration of the while loop of get_all_state_machines; the iteration
\* that finds no nextToken breaks and returns response.
ListStateMachines ==
    /\ entry = "sfn" /\ pc = "list_state_machines"
    /\ LET response_iterator == list_state_machines(api_pages, marker)
           merged == merge_page(response, marker, response_iterator, "stateMachines")
           more == has_more(response_iterator, "nextToken")
       IN /\ response' = merged
          /\ marker' = IF more THEN response_iterator.nextToken ELSE marker
          /\ pc' = IF more THEN "list_state_machines" ELSE "state_machines"
    /\ list_calls' = list_calls + 1
    /\ idx' = 1
    /\ exception = NoException
    /\ UNCHANGED <<exception, failed_call, arg_db, db_status_widget, arg_metric_name,
                   lookup_list, metrics_list, builder_calls,
                   entry, deploy_stage, api_pages, function, function_metadata,
                   is_iow_lambda, widget_properties, iow_functions, positioning,
                   lambda_widgets, memory_usage_widgets, state_machine_widgets>>

\* One iteration of the loop of create_state_machine_widgets.
StateMachineWidget ==
    /\ entry = "sfn" /\ pc = "state_machines"
    /\ idx <= Len(response.stateMachines)
    /\ LET state_machine == response.stateMachines[idx]
           state_machine_arn == state_machine.stateMachineArn
           passes == is_iow_state_machine_filter(
                         state_machine_arn,
                         list_tags_for_resource(state_machine_arn), deploy_stage)
           pos == set_dimensions(positioning, 12, 6)
       IN /\ positioning' = IF passes THEN pos ELSE positioning
          /\ state_machine_widgets' =
                IF passes
                THEN Append(state_machine_widgets,
                            state_machine_widget(pos, state_machine, deploy_stage))
                ELSE state_machine_widgets
    /\ idx' = idx + 1
    /\ exception = NoException
    /\ UNCHANGED <<exception, failed_call, arg_db, db_status_widget, arg_metric_name,
                   lookup_list, metrics_list, builder_calls,
                   entry, pc, deploy_stage, api_pages, list_calls, response, marker,
                   function, function_metadata, is_iow_lambda, widget_properties,
                   iow_functions, lambda_widgets, memory_usage_widgets>>

\* create_state_machine_widgets returns state_machine_widgets.
ReturnStateMachineWidgets ==
    /\ entry = "sfn" /\ pc = "state_machines"
    /\ idx > Len(response.stateMachines)
    /\ pc' = "done"
    /\ exception = NoException
    /\ UNCHANGED <<exception, failed_call, arg_db, db_status_widget, arg_metric_name,
                   lookup_list, metrics_list, builder_calls,
                   entry, deploy_stage, api_pages, list_calls, response, marker,
                   function, function_metadata, is_iow_lambda, widget_properties,
                   idx, iow_functions, positioning, lambda_widgets,
                   memory_usage_widgets, state_machine_widgets>>

\* generate_db_status_widget(region, deploy_stage, db) on its own.
CallGenerateDbStatusWidget ==
    /\ entry = "rds" /\ pc = "start"
    /\ \E region_name \in Regions :
           db_status_widget' = generate_db_status_widget(region_name, deploy_stage, arg_db)
    /\ pc' = "done"
    /\ exception = NoException
    /\ UNCHANGED <<exception, failed_call, arg_db, arg_metric_name,
                   lookup_list, metrics_list, builder_calls,
                   entry, deploy_stage, api_pages, list_calls, response, marker,
                   function, function_metadata, is_iow_lambda, widget_properties,
                   idx, iow_functions, positioning, lambda_widgets,
                   memory_usage_widgets, state_machine_widgets>>

\* generate_custom_lambda_metrics(deploy_stage, metric_name, lookup_list_name)
\* on its own, lookup_list being custom_lambda_widgets[lookup_list_name].
CallGenerateCustomLambdaMetrics ==
    /\ entry = "metrics" /\ pc = "start"
    /\ metrics_list' = custom_metrics_loop(lookup_list, 0, deploy_stage, arg_metric_name)
    /\ pc' = "done"
    /\ exception = NoException
    /\ UNCHANGED <<exception, failed_call, arg_db, db_status_widget, arg_metric_name,
                   lookup_list, builder_calls,
                   entry, deploy_stage, api_pages, list_calls, response, marker,
                   function, function_metadata, is_iow_lambda, widget_properties,
                   idx, iow_functions, positioning, lambda_widgets,
                   memory_usage_widgets, state_machine_widgets>>

\* self.sfn_client.list_state_machines(...) raises.
ListStateMachinesRaises ==
    /\ entry = "sfn" /\ pc = "list_state_machines"
    /\ exception = NoException
    /\ failed_call' = "list_state_machines"
    /\ exception' = raise(ClientError)
    /\ UNCHANGED <<arg_db, db_status_widget, arg_metric_name,
                   lookup_list, metrics_list, builder_calls,
                   entry, pc, deploy_stage, api_pages, list_calls, response, marker,
                   function, function_metadata, is_iow_lambda, widget_properties,
                   idx, iow_functions, positioning, lambda_widgets,
                   memory_usage_widgets, state_machine_widgets>>

\* self.sfn_client.list_tags_for_resource(resourceArn=state_machine_arn)
\* raises; it is called only for an ARN that holds the tier.
ListTagsForResourceRaises ==
    /\ entry = "sfn" /\ pc = "state_machines"
    /\ idx <= Len(response.stateMachines)
    /\ tier_matches(deploy_stage, response.stateMachines[idx].stateMachineArn)
    /\ exception = NoException
    /\ failed_call' = "list_tags_for_resource"
    /\ exception' = raise(ClientError)
    /\ UNCHANGED <<arg_db, db_status_widget, arg_metric_name,
                   lookup_list, metrics_list, builder_calls,
                   entry, pc, deploy_stage, api_pages, list_calls, response, marker,
                   function, function_metadata, is_iow_lambda, widget_properties,
                   idx, iow_functions, positioning, lambda_widgets,
                   memory_usage_widgets, state_machine_widgets>>

Next ==
    \/ GetIowFunctions
    \/ ListFunctions
    \/ FilterFunction
    \/ ReturnIowFunctions
    \/ CallWithIowFunctions
    \/ CreateLambdaWidgets
    \/ CreateLambdaMemoryUsageWidgets
    \/ CallBuilderAgain
    \/ CallIsIowLambdaFilter
    \/ CallGetWidgetProperties
    \/ CreateStateMachineWidgets
    \/ ListStateMachines
    \/ StateMachineWidget
    \/ ReturnStateMachineWidgets
    \/ ListFunctionsRaises
    \/ GetFunctionRaises
    \/ ListStateMachinesRaises
    \/ ListTagsForResourceRaises
    \/ CallGenerateDbStatusWidget
    \/ CallGenerateCustomLambdaMetrics

Spec == Init /\ [][Next]_vars

\* The listers on their own (they do not read deploy_stage).  The run is
\* sequential and every list call returns without raising: the entry into a
\* lister and each iteration of its while loop are taken once they can be.
ListerInit ==
    /\ Init
    /\ entry \in {"lambda", "sfn"}
    /\ deploy_stage = DEV
    /\ positioning = InitialPositioning

ListerNext ==
    \/ GetIowFunctions
    \/ ListFunctions
    \/ CreateStateMachineWidgets
    \/ ListStateMachines

ListerSpec ==
    /\ ListerInit /\ [][ListerNext]_vars
    /\ WF_vars(GetIowFunctions) /\ WF_vars(ListFunctions)
    /\ WF_vars(CreateStateMachineWidgets) /\ WF_vars(ListStateMachines)

----------------------------------------------------------------------------
(* Properties.                                                             *)

\* What the claims call "carries the key 'wma:organization' with the value 'IOW'".
CarriesIowTag(metadata) ==
    /\ "Tags" \in DOMAIN metadata
    /\ \E k \in DOMAIN metadata.Tags : k = wma_organization /\ metadata.Tags[k] = IOW

\* is_iow_lambda holds the verdict of the filter on 'function'.
LambdaFilterActed ==
    \/ entry = "filter" /\ pc = "done"
    \/ entry = "lambda" /\ pc # "start" /\ pc # "list_functions" /\ idx > 1

\* The get_function answer the verdict was computed from.
FilteredMetadata ==
    IF entry = "filter" THEN function_metadata ELSE get_function(function.FunctionName)

\* C1 as stated: the verdict is true iff the name contains the tier under a
\* case-insensitive comparison, the tags carry wma:organization = IOW, and the
\* name does not contain CleanupFunction.
C1_AsStated ==
    LambdaFilterActed =>
        (is_iow_lambda <=>
            /\ Contains(upper(deploy_stage), upper(function.FunctionName))
            /\ CarriesIowTag(FilteredMetadata)
            /\ ~Contains(CleanupFunction, function.FunctionName))

\* C1, amended: is_iow_lambda_filter returns true iff the function's name, taken
\* as it is (case-sensitively), contains the upper-cased deploy stage, the tags
\* carry wma:organization = IOW, and the name does not contain CleanupFunction;
\* in every other case it returns false.
C1_LambdaFilterContract ==
    LambdaFilterActed =>
        (is_iow_lambda <=>
            /\ Contains(upper(deploy_stage), function.FunctionName)
            /\ CarriesIowTag(FilteredMetadata)
            /\ ~Contains(CleanupFunction, function.FunctionName))

\* The filter was called on its own and accepted the function.
C1_Witness ==
    /\ entry = "filter" /\ pc = "done"
    /\ is_iow_lambda
    /\ deploy_stage # upper(deploy_stage)

\* The state machine records the loop of create_state_machine_widgets has
\* been through, and the lambda records get_iow_functions has been through.
StateMachinesSeen ==
    IF entry = "sfn" /\ pc \in {"state_machines", "done"}
    THEN {response.stateMachines[i] : i \in 1..(idx - 1)}
    ELSE {}

FunctionsSeen ==
    IF entry = "lambda" /\ pc # "start" /\ pc # "list_functions"
    THEN {response.Functions[i] : i \in 1..(idx - 1)}
    ELSE {}

\* The positions of the metric widgets of a state machine / of a lambda.
StateMachineWidgetsOf(arn) ==
    {i \in 2..Len(state_machine_widgets) :
        state_machine_widgets[i].properties.metrics[1][4] = arn}

LambdaWidgetsOf(function_name) ==
    {i \in 7..Len(lambda_widgets) :
        lambda_widgets[i].properties.metrics[1][4] = function_name}

MemoryWidgetsOf(function_name) ==
    {i \in 2..Len(memory_usage_widgets) :
        Contains(<<"/">> \o function_name \o <<"'">>,
                 memory_usage_widgets[i].properties.query)}

IowFunctionNames == {iow_functions[i].function_name : i \in 1..Len(iow_functions)}

\* C2 as stated: a resource whose name does not contain the deploy tier (here
\* even under a case-insensitive comparison) is never in the output, whatever
\* its tags and its ARN.
C2_AsStated ==
    /\ \A f \in FunctionsSeen :
           ~Contains(upper(deploy_stage), upper(f.FunctionName))
               => f.FunctionName \notin IowFunctionNames
    /\ \A m \in StateMachinesSeen :
           ~Contains(upper(deploy_stage), upper(m.name))
               => StateMachineWidgetsOf(m.stateMachineArn) = {}

\* C2, amended: every lambda function whose name does not contain the
\* upper-cased deploy stage, and every state machine whose ARN does not
\* contain the upper-cased deploy stage, is excluded from the output,
\* whatever tags it carries.
C2_TierMismatchExcluded ==
    /\ \A f \in FunctionsSeen :
           ~Contains(upper(deploy_stage), f.FunctionName)
               => f.FunctionName \notin IowFunctionNames
    /\ \A m \in StateMachinesSeen :
           ~Contains(upper(deploy_stage), m.stateMachineArn)
               => StateMachineWidgetsOf(m.stateMachineArn) = {}

\* A run went through an IOW-tagged state machine of another tier.
C2_Witness ==
    /\ entry = "sfn" /\ pc = "done"
    /\ \E m \in StateMachinesSeen :
           /\ ~Contains(upper(deploy_stage), m.stateMachineArn)
           /\ tags_loop(list_tags_for_resource(m.stateMachineArn).tags)

\* The state machine tags carry the key 'wma:organization' with value 'IOW'.
CarriesIowTagInList(tags_response) ==
    /\ "tags" \in DOMAIN tags_response
    /\ \E i \in 1..Len(tags_response.tags) :
           /\ "key" \in DOMAIN tags_response.tags[i]
           /\ tags_response.tags[i].key = wma_organization
           /\ tags_response.tags[i].value = IOW

\* C3: when a run is over, every listed lambda that is of the tier and carries
\* the tag wma:organization = IOW (and is no CleanupFunction) has exactly its
\* three metric widgets and its one memory-usage widget, every state machine
\* of the tier that carries the tag has exactly one widget, and every other
\* listed resource has no widget.
C3_AsStated ==
    /\ (entry = "lambda" /\ pc = "done") =>
           \A f \in FunctionsSeen :
               LET n == f.FunctionName
                   passes == /\ Contains(upper(deploy_stage), n)
                             /\ CarriesIowTag(get_function(n))
                             /\ ~Contains(CleanupFunction, n)
               IN /\ Cardinality(LambdaWidgetsOf(n)) = IF passes THEN 3 ELSE 0
                  /\ Cardinality(MemoryWidgetsOf(n)) = IF passes THEN 1 ELSE 0
    /\ (entry = "sfn" /\ pc = "done") =>
           \A m \in StateMachinesSeen :
               LET arn == m.stateMachineArn
                   passes == /\ Contains(upper(deploy_stage), arn)
                             /\ CarriesIowTagInList(list_tags_for_resource(arn))
               IN Cardinality(StateMachineWidgetsOf(arn)) = IF passes THEN 1 ELSE 0

\* create_lambda_widgets has returned lambda_widgets.
LambdaWidgetsBuilt ==
    /\ entry \in {"lambda", "widgets"}
    /\ pc \in {"create_lambda_memory_usage_widgets", "done"}

\* The iow_functions entry a per-lambda widget was built from.
FunctionOfWidget(w) ==
    iow_functions[CHOOSE k \in 1..Len(iow_functions) :
                      iow_functions[k].function_name = w.properties.metrics[1][4]]

Priority == <<"error_handling", "data_ingest", "dv", "sv", "nwis_web",
              "data_purging", "environment_management">>

\* The place of a category in the priority order; the undefined bucket is last.
Rank(branch) ==
    IF \E i \in 1..Len(Priority) : Priority[i] = branch
    THEN CHOOSE i \in 1..Len(Priority) : Priority[i] = branch
    ELSE Len(Priority) + 1

\* C4: in the list create_lambda_widgets returns, the autogenerated widgets
\* (after the six fixed ones) are in category priority order: a widget never
\* precedes a widget of a higher-priority category, and widgets of functions
\* of no known etl_branch come after all others.
C4_CategoryOrder ==
    LambdaWidgetsBuilt =>
        \A i, j \in 7..Len(lambda_widgets) :
            i < j => Rank(FunctionOfWidget(lambda_widgets[i]).etl_branch)
                       <= Rank(FunctionOfWidget(lambda_widgets[j]).etl_branch)

\* The builder ran on a list that is not in priority order and has a function
\* of an unknown etl_branch before a categorised one.
C4_Witness ==
    /\ entry = "widgets" /\ pc = "done"
    /\ \E i, j \in 1..Len(iow_functions) :
           /\ i < j
           /\ Rank(iow_functions[i].etl_branch) = Len(Priority) + 1
           /\ Rank(iow_functions[j].etl_branch) < Rank(iow_functions[i].etl_branch)

\* The position of the first widget of a function in lambda_widgets.
FirstWidgetOf(function_name) ==
    CHOOSE i \in LambdaWidgetsOf(function_name) :
        \A k \in LambdaWidgetsOf(function_name) : i <= k

\* C5: the widgets of each function are three contiguous widgets in the order
\* numeric-stats, concurrent-executions, duration, and of two functions with
\* the same etl_branch the one earlier in iow_functions has its widgets first.
C5_StablePartition ==
    LambdaWidgetsBuilt =>
        /\ Len(lambda_widgets) = 6 + 3 * Len(iow_functions)
        /\ \A k \in 1..Len(iow_functions) :
               LET n == iow_functions[k].function_name
                   p == FirstWidgetOf(n)
               IN /\ LambdaWidgetsOf(n) = {p, p + 1, p + 2}
                  /\ lambda_widgets[p].properties.view = "singleValue"
                  /\ lambda_widgets[p].properties.metrics[1][2] = "Invocations"
                  /\ lambda_widgets[p + 1].properties.metrics[1][2] = "ConcurrentExecutions"
                  /\ lambda_widgets[p + 2].properties.metrics[1][2] = "Duration"
        /\ \A i, j \in 1..Len(iow_functions) :
               (i < j /\ iow_functions[i].etl_branch = iow_functions[j].etl_branch)
                   => FirstWidgetOf(iow_functions[i].function_name)
                        < FirstWidgetOf(iow_functions[j].function_name)

\* The builder ran on two functions of one etl_branch with a function of
\* another branch between them.
C5_Witness ==
    /\ entry = "widgets" /\ pc = "done"
    /\ \E i, j, k \in 1..Len(iow_functions) :
           /\ i < k /\ k < j
           /\ iow_functions[i].etl_branch = iow_functions[j].etl_branch
           /\ iow_functions[k].etl_branch # iow_functions[i].etl_branch

\* get_widget_properties was called on its own and has returned.
PropertiesResolved == entry = "props" /\ pc = "done"

\* C6: for the name '<repo_name>-<S>-<descriptor>' of a table entry and the
\* deploy stage S, get_widget_properties returns the entry's label as title
\* and the entry's etl_branch.
C6_TableHit ==
    PropertiesResolved =>
        \A i \in 1..Len(dashboard_lambdas) :
            function.FunctionName =
                dashboard_lambdas[i].repo_name \o <<"-">> \o deploy_stage
                    \o <<"-">> \o dashboard_lambdas[i].descriptor
            => /\ widget_properties.title = dashboard_lambdas[i].label
               /\ widget_properties.etl_branch = dashboard_lambdas[i].etl_branch

\* The name resolved is the name of the second of two entries that share
\* their descriptor.
C6_Witness ==
    /\ PropertiesResolved
    /\ \E i, j \in 1..Len(dashboard_lambdas) :
           /\ i < j
           /\ dashboard_lambdas[i].descriptor = dashboard_lambdas[j].descriptor
           /\ function.FunctionName =
                  dashboard_lambdas[i].repo_name \o <<"-">> \o deploy_stage
                      \o <<"-">> \o dashboard_lambdas[i].descriptor

\* No entry of dashboard_lambdas has the derived (repo_name, descriptor).
NoEntryMatches(parts) ==
    \A i \in 1..Len(dashboard_lambdas) :
        ~(/\ dashboard_lambdas[i].repo_name = parts.repo_name
          /\ dashboard_lambdas[i].descriptor = parts.descriptor)

\* The name is an ES logger name whose repo_name is in the table.
EsLoggerOfKnownRepo(parts) ==
    /\ parts.descriptor = es_logs_plugin
    /\ \E i \in 1..Len(dashboard_lambdas) :
           dashboard_lambdas[i].repo_name = parts.repo_name

\* The state machine's tier-stripped name is not a key of state_machines.
NoStateMachineTitle(state_machine_name) ==
    \A i \in 1..Len(state_machines) :
        state_machines[i].key # replace(state_machine_name, <<"-">> \o deploy_stage, <<>>)

\* Every state machine that passed the filter and has no title in the lookup
\* has its one widget, titled with its raw name.
MissingTitleKeepsWidget ==
    \A m \in StateMachinesSeen :
        (/\ is_iow_state_machine_filter(m.stateMachineArn,
                                        list_tags_for_resource(m.stateMachineArn),
                                        deploy_stage)
         /\ NoStateMachineTitle(m.name))
        => /\ Cardinality(StateMachineWidgetsOf(m.stateMachineArn)) = 1
           /\ \A i \in StateMachineWidgetsOf(m.stateMachineArn) :
                  state_machine_widgets[i].properties.title = m.name

\* C7 as stated: whenever the derived (repo_name, descriptor) matches no entry
\* of dashboard_lambdas, the result is the raw function name and 'not defined';
\* a state machine without a title in the lookup keeps its widget.
C7_AsStated ==
    /\ PropertiesResolved =>
           (NoEntryMatches(name_parts(function.FunctionName, deploy_stage))
               => widget_properties = [title |-> function.FunctionName,
                                       etl_branch |-> "not defined"])
    /\ MissingTitleKeepsWidget

\* C7, amended: whenever the derived (repo_name, descriptor) matches no entry
\* of dashboard_lambdas and the name is not an ES logger name (descriptor
\* 'es-logs-plugin') whose repo_name is the repo_name of some entry, the result
\* is the raw function name and 'not defined'; a state machine without a title
\* in the lookup keeps its widget, titled with its raw name.
C7_LookupMissDefaults ==
    /\ PropertiesResolved =>
           ((/\ NoEntryMatches(name_parts(function.FunctionName, deploy_stage))
             /\ ~EsLoggerOfKnownRepo(name_parts(function.FunctionName, deploy_stage)))
               => widget_properties = [title |-> function.FunctionName,
                                       etl_branch |-> "not defined"])
    /\ MissingTitleKeepsWidget

\* A name of the table was resolved under another deploy stage, which makes
\* it a miss.
C7_Witness ==
    /\ PropertiesResolved
    /\ NoEntryMatches(name_parts(function.FunctionName, deploy_stage))
    /\ ~EsLoggerOfKnownRepo(name_parts(function.FunctionName, deploy_stage))
    /\ \E i \in 1..Len(dashboard_lambdas) :
           Contains(dashboard_lambdas[i].repo_name, function.FunctionName)

\* The concatenation of the pages of a chain.
RECURSIVE Flatten(_)
Flatten(pages) ==
    IF Len(pages) = 0 THEN <<>> ELSE pages[1] \o Flatten(Tail(pages))

\* How many times a record occurs in a list.
Occurrences(r, recs) == Cardinality({i \in 1..Len(recs) : recs[i] = r})

\* get_all_lambda_metadata / get_all_state_machines has returned.
LambdaListerReturned == entry = "lambda" /\ pc # "start" /\ pc # "list_functions"

StateMachineListerReturned == entry = "sfn" /\ pc \in {"state_machines", "done"}

\* C8: the list a lister returns holds every record of every page exactly as
\* often as the pages do, and nothing else; get_all_state_machines returns
\* the records in page order.
C8_AllPagesCollected ==
    /\ LambdaListerReturned =>
           /\ Len(response.Functions) = Len(Flatten(api_pages))
           /\ \A i \in 1..Len(Flatten(api_pages)) :
                  Occurrences(Flatten(api_pages)[i], response.Functions)
                      = Occurrences(Flatten(api_pages)[i], Flatten(api_pages))
    /\ StateMachineListerReturned =>
           response.stateMachines = Flatten(api_pages)

\* A lister returned from a chain of several pages that all hold records.
C8_Witness ==
    /\ LambdaListerReturned \/ StateMachineListerReturned
    /\ Len(api_pages) >= 2
    /\ \A k \in 1..Len(api_pages) : Len(api_pages[k]) >= 1

\* The list is in ascending order of the key.
Ascending(recs, key) ==
    \A i, j \in 1..Len(recs) : i < j => ~StrLess(recs[j][key], recs[i][key])

\* C9 as stated: both listers return their list sorted by resource name.
C9_AsStated ==
    /\ LambdaListerReturned => Ascending(response.Functions, "FunctionName")
    /\ StateMachineListerReturned => Ascending(response.stateMachines, "name")

\* C9, amended: get_all_lambda_metadata returns its list in ascending order of
\* FunctionName whatever order the API returned the records in;
\* get_all_state_machines does not sort: its list is in ascending order of
\* name exactly when the API returned the records in that order.
C9_LambdaListSorted ==
    /\ LambdaListerReturned => Ascending(response.Functions, "FunctionName")
    /\ StateMachineListerReturned =>
           (Ascending(response.stateMachines, "name")
               <=> Ascending(Flatten(api_pages), "name"))

\* get_all_lambda_metadata returned from pages that were not in name order.
C9_Witness ==
    /\ LambdaListerReturned
    /\ ~Ascending(Flatten(api_pages), "FunctionName")

\* C10: a run that lists resources gets to the return of the lister, and the
\* lister has then made exactly one list call per page of the chain: the page
\* without a continuation token ends the loop.
C10_PaginationTerminates ==
    /\ (entry \in {"lambda", "sfn"})
           ~> (LambdaListerReturned \/ StateMachineListerReturned)
    /\ []((LambdaListerReturned \/ StateMachineListerReturned)
              => list_calls = Len(api_pages))

\* A lister has returned from a chain of several pages.
C10_Witness ==
    /\ LambdaListerReturned \/ StateMachineListerReturned
    /\ list_calls >= 2

----------------------------------------------------------------------------
(* C11.  The lambda widget builders are idempotent.                        *)

\* A builder that has already returned a list is being called again.
SecondLambdaWidgetsCall == pc = "create_lambda_widgets" /\ lambda_widgets # <<>>

SecondMemoryUsageWidgetsCall ==
    pc = "create_lambda_memory_usage_widgets" /\ memory_usage_widgets # <<>>

\* C11: whenever create_lambda_widgets or create_lambda_memory_usage_widgets
\* is called again with the same deploy_stage and iow_functions, whatever
\* builder calls were made in between and whatever they left in positioning,
\* the list it returns is equal to the list it returned before.
C11_BuildersIdempotent ==
    [][/\ SecondLambdaWidgetsCall => lambda_widgets' = lambda_widgets
       /\ SecondMemoryUsageWidgetsCall => memory_usage_widgets' = memory_usage_widgets]_vars

\* create_lambda_widgets has returned a second time, after a call of
\* create_lambda_memory_usage_widgets, for a list of at least two functions.
C11_Witness ==
    /\ entry = "rebuild"
    /\ pc = "create_lambda_memory_usage_widgets"
    /\ builder_calls = 3
    /\ memory_usage_widgets # <<>>
    /\ Len(iow_functions) >= 2
    /\ Len(lambda_widgets) > 6

----------------------------------------------------------------------------
(* C12.  No partial success, no retry.                                     *)

\* get_iow_functions has returned iow_functions.
IowFunctionsReturned ==
    entry = "lambda" /\ pc \notin {"start", "list_functions", "filter"}

\* create_state_machine_widgets has returned state_machine_widgets.
StateMachineWidgetsReturned ==
    entry = "sfn" /\ pc \notin {"start", "list_state_machines", "state_machines"}

\* Every page was listed and every record went through the filter.
AllCallsSucceeded ==
    /\ failed_call = NoCall
    /\ list_calls = Len(api_pages)
    /\ entry = "lambda" => idx = Len(response.Functions) + 1
    /\ entry = "sfn" => idx = Len(response.stateMachines) + 1

\* C12: once an API call (list_functions, get_function, list_state_machines,
\* list_tags_for_resource) has raised, the exception is in flight, the run
\* takes no further step (the call is not retried and nothing is returned,
\* whatever part of a list had been built), and a list is returned only
\* when every page listing and every tag lookup succeeded.
C12_NoPartialSuccess ==
    /\ [](failed_call # NoCall =>
             /\ exception # NoException
             /\ ~IowFunctionsReturned /\ ~StateMachineWidgetsReturned)
    /\ []((IowFunctionsReturned \/ StateMachineWidgetsReturned) => AllCallsSucceeded)
    /\ [][failed_call # NoCall => UNCHANGED vars]_vars

\* list_tags_for_resource raised after a widget had already been appended
\* for an earlier state machine.
C12_Witness ==
    /\ entry = "sfn"
    /\ failed_call = "list_tags_for_resource"
    /\ exception = ClientError
    /\ Len(state_machine_widgets) >= 2
    /\ idx <= Len(response.stateMachines)

----------------------------------------------------------------------------
(* C13.  The RDS status widget.                                            *)

DbStatusWidgetReturned == entry = "rds" /\ pc = "done"

\* What the two status widgets have in common: everything but the first
\* metric and the title.
SharedShape(widget) ==
    /\ widget.type = "metric" /\ widget.height = 6 /\ widget.width = 12
    /\ Len(widget.properties.metrics) = 2
    /\ widget.properties.metrics[2] =
           <<".", "DatabaseConnections", ".", ".", [yAxis |-> "right"]>>
    /\ widget.properties.view = "timeSeries"
    /\ widget.properties.stacked = FALSE
    /\ widget.properties.period = 300
    /\ widget.properties.stat = "Average"

\* C13: generate_db_status_widget(region, deploy_stage, db) returns a metric
\* widget of height 6 and width 12 whose first metric is
\* ['AWS/RDS', 'CPUUtilization', <dimension>, '<db>-<lower-cased deploy_stage>'],
\* with DBClusterIdentifier for nwcapture and DBInstanceIdentifier for
\* observations; the second metric, view, stacked, the region passed in,
\* period 300 and stat Average are the same for both.
C13_DbStatusWidget ==
    DbStatusWidgetReturned =>
        /\ SharedShape(db_status_widget)
        /\ db_status_widget.properties.region \in Regions
        /\ LET metric == db_status_widget.properties.metrics[1]
           IN /\ Len(metric) = 4
              /\ metric[1] = "AWS/RDS" /\ metric[2] = "CPUUtilization"
              /\ arg_db = nwcapture => metric[3] = "DBClusterIdentifier"
              /\ arg_db = observations => metric[3] = "DBInstanceIdentifier"
              /\ \E i \in 1..Len(metric[4]) :
                     /\ metric[4][i] = "-"
                     /\ SubSeq(metric[4], 1, i - 1) = arg_db
                     /\ upper(SubSeq(metric[4], i + 1, Len(metric[4]))) = upper(deploy_stage)
                     /\ \A k \in (i + 1)..Len(metric[4]) :
                            \A u \in 1..Len(UpperCase) : metric[4][k] # UpperCase[u]

\* The widget of the test fixture: nwcapture on DEV in us-south-10.
C13_Witness ==
    /\ DbStatusWidgetReturned
    /\ deploy_stage = DEV
    /\ db_status_widget.properties.region = "us-south-10"
    /\ db_status_widget.properties.metrics[1] =
           <<"AWS/RDS", "CPUUtilization", "DBClusterIdentifier", <<"n", "w", "c", "a", "p", "t", "u", "r", "e", "-", "d", "e", "v">>>>
    /\ db_status_widget.properties.title = <<"N", "w", "c", "a", "p", "t", "u", "r", "e", " ", "D", "B", " ", "S", "t", "a", "t", "u", "s">>

----------------------------------------------------------------------------
(* C14.  ES logger names.                                                  *)

\* The name without a trailing '-<deploy_stage>-es-logs-plugin'.
WithoutEsLoggerSuffix(function_name) ==
    LET suffix == <<"-">> \o deploy_stage \o <<"-">> \o es_logs_plugin
        cut == Len(function_name) - Len(suffix)
    IN IF cut >= 0 /\ SubSeq(function_name, cut + 1, Len(function_name)) = suffix
       THEN SubSeq(function_name, 1, cut)
       ELSE function_name

\* The entries of the table that have the repo_name.
EntriesOfRepo(repo_name) ==
    {i \in 1..Len(dashboard_lambdas) : dashboard_lambdas[i].repo_name = repo_name}

----------------------------------------------------------------------------
(* C15.  The metrics of the custom lambda widgets.                         *)

CustomMetricsReturned == entry = "metrics" /\ pc = "done"

\* '<repo_name>-<deploy_stage>-<descriptor>' of the entry under the lookup name.
NameUnderStage(lookup_name) ==
    LET i == CHOOSE j \in 1..Len(dashboard_lambdas) :
                 dashboard_lambdas[j].key = lookup_name
    IN dashboard_lambdas[i].repo_name \o <<"-">> \o deploy_stage \o <<"-">>
         \o dashboard_lambdas[i].descriptor

LabelOf(lookup_name) ==
    dashboard_lambdas[CHOOSE j \in 1..Len(dashboard_lambdas) :
                          dashboard_lambdas[j].key = lookup_name].label

\* C15: generate_custom_lambda_metrics returns one metric per name of the
\* lookup list, in the list's order; the first is
\* ['AWS/Lambda', metric_name, 'FunctionName', name, {'label': label}],
\* every later one is ['...', name, {'label': label}]; an empty list gives
\* an empty metric list.
C15_CustomMetricsShape ==
    CustomMetricsReturned =>
        /\ Len(metrics_list) = Len(lookup_list)
        /\ \A k \in 1..Len(lookup_list) :
              /\ Len(metrics_list[k]) = (IF k = 1 THEN 5 ELSE 3)
              /\ metrics_list[k] =
                    IF k = 1
                    THEN <<"AWS/Lambda", arg_metric_name, "FunctionName",
                           NameUnderStage(lookup_list[k]),
                           [label |-> LabelOf(lookup_list[k])]>>
                    ELSE <<"...", NameUnderStage(lookup_list[k]),
                           [label |-> LabelOf(lookup_list[k])]>>

\* The metrics of the 'concurrent_lambdas' list of the table were generated.
C15_Witness ==
    /\ CustomMetricsReturned
    /\ deploy_stage = DEV
    /\ arg_metric_name = "ConcurrentExecutions"
    /\ lookup_list = custom_lambda_widgets.concurrent_lambdas
    /\ Len(metrics_list) = 3
    /\ metrics_list[3][1] = "..."

----------------------------------------------------------------------------
(* C16.  Widget dimensions.                                                *)

HasDimensions(widget, w, h) == widget.width = w /\ widget.height = h

\* C16: whatever positioning held at the start and however many builder
\* calls were made, in every list built so far the section-title text
\* widgets are 24x1, the custom lambda metric widgets 12x6, the per-lambda
\* metric widgets 8x6, the memory-usage log widgets 24x6 and the state
\* machine metric widgets 12x6.
C16_FixedDimensions ==
    /\ \A k \in 1..Len(lambda_widgets) :
          IF k \in {1, 6}
          THEN lambda_widgets[k].type = "text" /\ HasDimensions(lambda_widgets[k], 24, 1)
          ELSE /\ lambda_widgets[k].type = "metric"
               /\ HasDimensions(lambda_widgets[k], IF k <= 5 THEN 12 ELSE 8, 6)
    /\ \A k \in 1..Len(memory_usage_widgets) :
          IF k = 1
          THEN /\ memory_usage_widgets[k].type = "text"
               /\ HasDimensions(memory_usage_widgets[k], 24, 1)
          ELSE /\ memory_usage_widgets[k].type = "log"
               /\ HasDimensions(memory_usage_widgets[k], 24, 6)
    /\ \A k \in 1..Len(state_machine_widgets) :
          IF k = 1
          THEN /\ state_machine_widgets[k].type = "text"
               /\ HasDimensions(state_machine_widgets[k], 24, 1)
          ELSE /\ state_machine_widgets[k].type = "metric"
               /\ HasDimensions(state_machine_widgets[k], 12, 6)

\* Three builder calls have been made on a non-empty iow_functions list, the
\* last of them a second call of create_lambda_memory_usage_widgets.
C16_Witness ==
    /\ entry = "rebuild"
    /\ pc = "done"
    /\ builder_calls = 3
    /\ Len(lambda_widgets) > 6
    /\ Len(memory_usage_widgets) > 1
    /\ HasDimensions(positioning, 24, 6)

====
